---- MODULE Spec2Model ----
(***************************************************************************)
(* Chargeback webhook handler: request gating, the chargeback pipeline     *)
(* (order lookup, tag escalation, persistence, notification), the          *)
(* tag-escalation rule, the sanitization of stored payloads, concurrent    *)
(* pipeline invocations for one customer and the status endpoint.          *)
(* Strings that the code inspects character by character (customer tags,   *)
(* signatures, payloads) are sequences of one-character strings.           *)
(***************************************************************************)
EXTENDS Integers, Sequences, FiniteSets, TLC

VARIABLES
    env,            \* process.env: webhookSecret, expectedDomain, channelId
    pc,             \* position of the chargeback handler
    req,            \* the request being handled: headers and body
    log,            \* side effects of the current request, in order
    errTable,       \* rows this request inserted into tab_sis_err
    procTable,      \* rows this request inserted into tab_wbk_itm
    dbAvailable,    \* ChargebackService.dbAvailable
    dispute,        \* parsed body (handler local)
    order,          \* processChargeback local: the order returned by getOrder
    result,         \* what processChargeback returned
    platformTags,   \* the customer's tags on the commerce platform
    nreq,           \* requests received so far
    lastAccepted,   \* the last delivery, when it was answered 200
    redelivered,    \* the request being handled is that delivery, unchanged
    tagStart,       \* tag ladder: the string the iteration started from
    tagPrev,        \* tag ladder: currentTags of the last application
    tagRes,         \* tag ladder: result of the last application
    tagStep,        \* tag ladder: applications so far
    sanIn,          \* sanitizeRequestData: the text passed in
    sanOut,         \* sanitizeRequestData: what it returned
    sanDone,        \* sanitizeRequestData: it has returned
    raceStart,      \* concurrent invocations: the customer's tags at the start
    raceTags,       \* concurrent invocations: the customer's tags on the platform
    racePc,         \* concurrent invocations: position of each processChargeback
    raceRead,       \* concurrent invocations: customerTags of each
    raceOutcome,    \* concurrent invocations: what each did to the tags
    stPc,           \* status endpoint: position of the handler
    stEnv,          \* status endpoint: which settings process.env holds
    stConn,         \* status endpoint: what testConnection returned
    stResponse,     \* status endpoint: statusResponse and the HTTP status
    stLog           \* status endpoint: calls made, in order

vars == <<env, pc, req, log, errTable, procTable, dbAvailable, dispute, order,
          result, platformTags, nreq, lastAccepted, redelivered,
          tagStart, tagPrev, tagRes, tagStep, sanIn, sanOut, sanDone,
          raceStart, raceTags, racePc, raceRead, raceOutcome,
          stPc, stEnv, stConn, stResponse, stLog>>

handlerVars == <<env, pc, req, log, errTable, procTable, dbAvailable, dispute,
                 order, result, platformTags, nreq, lastAccepted, redelivered>>
histVars == <<lastAccepted, redelivered>>
tagVars == <<tagStart, tagPrev, tagRes, tagStep>>
\* what no step of the chargeback handler touches
sanVars == <<sanIn, sanOut, sanDone>>
raceVars == <<raceStart, raceTags, racePc, raceRead, raceOutcome>>
statusVars == <<stPc, stEnv, stConn, stResponse, stLog>>
otherVars == <<tagVars, sanVars, raceVars, statusVars>>

\* ---------------------------------------------------------------- bounds
MaxRequests == 2
MaxFrags == 2
MaxApply == 4
MaxData == 3
MaxInvocations == 3
MaxCount == 2

\* ---------------------------------------------------------------- strings
NoValue == "<absent>"

FLAG1 == <<"c","h","a","r","g","e","b","a","c","k","_","f","l","a","g","1">>
RISK == <<"c","h","a","r","g","e","b","a","c","k","_","r","i","s","k">>
SEP == <<",", " ">>
VIP == <<"v","i","p">>

\* String.prototype.includes
includes(s, sub) ==
    \E i \in 0..(Len(s) - Len(sub)) : SubSeq(s, i + 1, i + Len(sub)) = sub

IsPrefix(p, s) == Len(p) <= Len(s) /\ SubSeq(s, 1, Len(p)) = p

ActionNoop == "Customer already has chargeback_risk, no need to add chargeback_flag1"
ActionFlag1 == "Added tag: chargeback_flag1"
ActionRisk == "Added tag: chargeback_risk (customer already has chargeback_flag1)"

\* a slip that tests the first-offense flag before the risk tag
applyTagLogic_flagFirst(currentTags) ==
    LET hasChargebackFlag1 == includes(currentTags, FLAG1)
        hasChargebackRisk == includes(currentTags, RISK)
    IN  IF ~hasChargebackFlag1
        THEN [shouldUpdate |-> TRUE,
              newTags |-> IF currentTags # <<>> THEN currentTags \o SEP \o FLAG1 ELSE FLAG1,
              action |-> ActionFlag1]
        ELSE IF hasChargebackRisk
        THEN [shouldUpdate |-> FALSE, newTags |-> currentTags, action |-> ActionNoop]
        ELSE [shouldUpdate |-> TRUE,
              newTags |-> currentTags \o SEP \o RISK,
              action |-> ActionRisk]

\* a slip that never stops escalating: the risk tag is appended again
applyTagLogic_noStop(currentTags) ==
    LET hasChargebackFlag1 == includes(currentTags, FLAG1)
    IN  IF ~hasChargebackFlag1
        THEN [shouldUpdate |-> TRUE,
              newTags |-> IF currentTags # <<>> THEN currentTags \o SEP \o FLAG1 ELSE FLAG1,
              action |-> ActionFlag1]
        ELSE [shouldUpdate |-> TRUE,
              newTags |-> currentTags \o SEP \o RISK,
              action |-> ActionRisk]

\* ChargebackService.applyTagLogic
applyTagLogic(currentTags) ==
    LET hasChargebackFlag1 == includes(currentTags, FLAG1)
        hasChargebackRisk == includes(currentTags, RISK)
    IN  IF hasChargebackRisk
        THEN [shouldUpdate |-> FALSE, newTags |-> currentTags, action |-> ActionNoop]
        ELSE IF ~hasChargebackFlag1
        THEN [shouldUpdate |-> TRUE,
              newTags |-> IF currentTags # <<>> THEN currentTags \o SEP \o FLAG1 ELSE FLAG1,
              action |-> ActionFlag1]
        ELSE [shouldUpdate |-> TRUE,
              newTags |-> IF currentTags # <<>> THEN currentTags \o SEP \o RISK ELSE RISK,
              action |-> ActionRisk]

\* ------------------------------------------------- tag ladder: the inputs
\* Tag strings are built from fragments, so that a label can also arise
\* across a fragment boundary ("chargeback_" followed by "risk").
Frags ==
    { VIP, SEP, FLAG1, RISK,
      <<"c","h","a","r","g","e","b","a","c","k","_">>,
      <<"r","i","s","k">>,
      <<"f","l","a","g","1">>,
      <<"c","h","a","r","g","e","b","a","c","k","_","f","l","a","g">>,
      <<"1">> }

RECURSIVE Concat(_)
Concat(fs) == IF fs = <<>> THEN <<>> ELSE Head(fs) \o Concat(Tail(fs))

TagInputs ==
    { Concat(fs) : fs \in UNION { [1..n -> Frags] : n \in 0..MaxFrags } }

NoResult == [shouldUpdate |-> FALSE, newTags |-> <<>>, action |-> NoValue]

NoRequest ==
    [hmac |-> NoValue, topic |-> NoValue, domain |-> NoValue, body |-> NoValue,
     reread |-> NoValue]
NoDispute == [isNull |-> FALSE, type |-> NoValue]
NoOrder == [customer |-> FALSE, tags |-> <<>>, tagsIsString |-> TRUE]
NoOutcome == [success |-> FALSE, statusCode |-> 0]

HandlerIdle ==
    /\ env = [webhookSecret |-> NoValue, expectedDomain |-> NoValue, channelId |-> NoValue]
    /\ pc = "idle"
    /\ req = NoRequest
    /\ log = <<>>
    /\ errTable = <<>>
    /\ procTable = <<>>
    /\ dbAvailable = FALSE
    /\ dispute = NoDispute
    /\ order = NoOrder
    /\ result = NoOutcome
    /\ platformTags = <<>>
    /\ nreq = 0
    /\ lastAccepted = NoRequest
    /\ redelivered = FALSE

\* applyTagLogic not iterated
TagIdle ==
    /\ tagStart = <<>>
    /\ tagPrev = <<>>
    /\ tagRes = NoResult
    /\ tagStep = 0

\* sanitizeRequestData not called
SanIdle ==
    /\ sanIn = <<>>
    /\ sanOut = [wrapped |-> FALSE, original_data |-> <<>>, length |-> 0, error |-> NoValue]
    /\ sanDone = FALSE

\* no concurrent invocations
RaceIdle ==
    /\ raceStart = <<>>
    /\ raceTags = <<>>
    /\ racePc = [i \in 1..MaxInvocations |-> "start"]
    /\ raceRead = [i \in 1..MaxInvocations |-> <<>>]
    /\ raceOutcome = [i \in 1..MaxInvocations |-> "none"]

\* the metrics of a statusResponse as it is first built, and as getMetrics
\* returns them when a query failed
ZeroMetrics ==
    [total_chargebacks |-> 0, chargebacks_today |-> 0, chargebacks_this_month |-> 0,
     errors_today |-> 0, errors_this_month |-> 0]

\* no statusResponse built
NoStatusResponse ==
    [http |-> 0, status |-> NoValue, database |-> NoValue, shopify |-> NoValue,
     slack |-> NoValue, metrics |-> ZeroMetrics]

\* no status request
StatusIdle ==
    /\ stPc = "idle"
    /\ stEnv = [shopDomain |-> FALSE, accessToken |-> FALSE, slackToken |-> FALSE]
    /\ stConn = FALSE
    /\ stResponse = NoStatusResponse
    /\ stLog = <<>>

InitTag ==
    /\ HandlerIdle
    /\ SanIdle
    /\ RaceIdle
    /\ StatusIdle
    /\ tagStart \in TagInputs
    /\ tagPrev = tagStart
    /\ tagRes = [NoResult EXCEPT !.newTags = tagStart]
    /\ tagStep = 0

\* one more application of the rule, newTags fed back as currentTags
TagApply ==
    /\ tagStep < MaxApply
    /\ tagPrev' = tagRes.newTags
    /\ tagRes' = applyTagLogic(tagRes.newTags)
    /\ tagStep' = tagStep + 1
    /\ UNCHANGED <<tagStart, handlerVars, sanVars, raceVars, statusVars>>

NextTag == TagApply

SpecTag == InitTag /\ [][NextTag]_vars

\* ------------------------------------------------------- side effects
\* One entry of the per-request record of side effects.
Ev(op, code, kind, ok) == [op |-> op, code |-> code, kind |-> kind, ok |-> ok]

Count(seq, op) == Cardinality({i \in 1..Len(seq) : seq[i].op = op})

\* ------------------------------------------------ signature verification
Secret == "s"
\* a second value SHOPIFY_WEBHOOK_SECRET can hold, not the one the sender signs with
OtherSecret == "t"

Bodies == {"empty", "notjson", "null", "notype", "refund", "chargeback"}

\* what request.text() does when the handler has already read the body
Rereads == {"text", "throws"}

\* the digest text under the secret the sender signs with
Digest(body) ==
    CASE body = "empty" -> <<"B", "B">>
      [] body = "notjson" -> <<"B", "A">>
      [] body = "null" -> <<"A", "B">>
      [] body = "notype" -> <<"B", "+">>
      [] body = "refund" -> <<"+", "A">>
      [] body = "chargeback" -> <<"A", "+">>

\* crypto.createHmac('sha256', secret).update(body).digest('base64'):
\* a text that depends on the body and on the secret
Hmac(secret, body) ==
    IF secret = Secret THEN Digest(body)
    ELSE [i \in 1..Len(Digest(body)) |-> Digest(body)[Len(Digest(body)) + 1 - i]]

\* value of one character of base64 text; '-' is the URL-safe spelling of '+'
B64Val(c) ==
    CASE c = "A" -> 0
      [] c = "B" -> 1
      [] c = "+" -> 62
      [] c = "-" -> 62

\* Buffer.from(text, 'base64')
BufferFromBase64(text) == [i \in 1..Len(text) |-> B64Val(text[i])]

\* a comparison over the shorter of the two buffers, which never throws
timingSafeEqual_prefix(a, b) ==
    IF \A i \in 1..(IF Len(a) < Len(b) THEN Len(a) ELSE Len(b)) : a[i] = b[i]
    THEN "true" ELSE "false"

\* crypto.timingSafeEqual: throws when the two buffers differ in length
timingSafeEqual(a, b) ==
    IF Len(a) # Len(b) THEN "throw" ELSE IF a = b THEN "true" ELSE "false"

\* validateShopifyWebhook with the header looked at before the secret
validateShopifyWebhook_headerFirst(request) ==
    IF request.hmac = NoValue THEN TRUE
    ELSE IF env.webhookSecret = NoValue THEN FALSE
    ELSE LET isValid == timingSafeEqual(BufferFromBase64(request.hmac),
                            BufferFromBase64(Hmac(env.webhookSecret, request.body)))
         IN  IF isValid = "throw" THEN FALSE ELSE isValid = "true"

\* validateShopifyWebhook turning away a request without the header
validateShopifyWebhook_strict(request) ==
    IF env.webhookSecret = NoValue \/ request.hmac = NoValue THEN FALSE
    ELSE IF request.body = "empty" /\ request.reread = "throws" THEN FALSE
    ELSE LET isValid == timingSafeEqual(BufferFromBase64(request.hmac),
                            BufferFromBase64(Hmac(env.webhookSecret, request.body)))
         IN  IF isValid = "throw" THEN FALSE ELSE isValid = "true"

\* validateShopifyWebhook
validateShopifyWebhook(request) ==
    IF env.webhookSecret = NoValue THEN FALSE
    ELSE IF request.body = "empty" /\ request.reread = "throws" THEN FALSE
    ELSE IF request.hmac = NoValue THEN TRUE
    ELSE LET expectedHmac == Hmac(env.webhookSecret, request.body)
             isValid == timingSafeEqual(BufferFromBase64(request.hmac),
                                        BufferFromBase64(expectedHmac))
         IN  IF isValid = "throw" THEN FALSE ELSE isValid = "true"

\* ------------------------------------------------------ topic and domain
\* the list without the update topics
supportedTopics_createOnly == {"disputes/create", "chargebacks/create"}

supportedTopics ==
    {"disputes/create", "disputes/update", "chargebacks/create", "chargebacks/update"}

\* validateChargebackWebhook
validateChargebackWebhook(request) ==
    IF request.topic = NoValue THEN FALSE ELSE request.topic \in supportedTopics

ShopDomain == "shop.myshopify.com"

\* validateShopDomain letting a request without the domain header pass
validateShopDomain_absentOk(request) ==
    IF env.expectedDomain = NoValue \/ request.domain = NoValue THEN TRUE
    ELSE request.domain = env.expectedDomain

\* validateShopDomain
validateShopDomain(request) ==
    IF env.expectedDomain = NoValue THEN TRUE
    ELSE IF request.domain = NoValue THEN FALSE
    ELSE request.domain = env.expectedDomain

\* JSON.parse(body): the body texts are '', '{bad', 'null', '{"id":1}',
\* '{"id":1,"type":"refund"}' and '{"id":1,"type":"chargeback"}'
JSONParse(body) ==
    CASE body \in {"empty", "notjson"} -> [ok |-> FALSE, value |-> NoDispute]
      [] body = "null" -> [ok |-> TRUE, value |-> [isNull |-> TRUE, type |-> NoValue]]
      [] body = "notype" -> [ok |-> TRUE, value |-> [isNull |-> FALSE, type |-> NoValue]]
      [] body = "refund" -> [ok |-> TRUE, value |-> [isNull |-> FALSE, type |-> "refund"]]
      [] body = "chargeback" -> [ok |-> TRUE, value |-> [isNull |-> FALSE, type |-> "chargeback"]]

\* ------------------------------------------------------- sanitization
\* Characters of a payload: a digit, a character no JSON text starts with,
\* and four control characters (line feed, carriage return, tab, NUL).
LF == "<LF>"
CR == "<CR>"
TAB == "<TAB>"
NUL == "<NUL>"
BACKSLASH == "\\"
Chars == {"1", "x", LF, CR, TAB, NUL}

\* the characters /[\x00-\x1F\x7F-\x9F]/ matches
ControlChars == {LF, CR, TAB, NUL}

\* the characters JSON.parse skips around a value
JSONWhitespace == {LF, CR, TAB}

\* JSON.parse(data) does not throw: over these characters the JSON texts are
\* the numbers 1, 11, ... with whitespace before and after
JSONValid(data) ==
    \E i, j \in 1..Len(data) :
        /\ i <= j
        /\ \A k \in 1..Len(data) :
               IF i <= k /\ k <= j THEN data[k] = "1" ELSE data[k] \in JSONWhitespace

RECURSIVE ReplaceAll(_, _, _)
\* String.prototype.replace with a global pattern matching the characters of
\* `chars`, each match replaced by the text `by`
ReplaceAll(data, chars, by) ==
    IF data = <<>> THEN <<>>
    ELSE (IF Head(data) \in chars THEN by ELSE <<Head(data)>>)
         \o ReplaceAll(Tail(data), chars, by)

\* no request_data in the error data
NoData == [wrapped |-> FALSE, original_data |-> <<>>, length |-> 0, error |-> NoValue]

\* a text stored as it is
Unchanged(data) ==
    [wrapped |-> FALSE, original_data |-> data, length |-> Len(data), error |-> ""]

\* sanitizeRequestData: a JSON text is returned as it is, any other text as
\* the object {original_data, length, error}
sanitizeRequestData(data) ==
    IF JSONValid(data) THEN Unchanged(data)
    ELSE LET sanitized ==
                 ReplaceAll(ReplaceAll(ReplaceAll(ReplaceAll(data,
                     ControlChars, <<>>),
                     {LF}, <<BACKSLASH, "n">>),
                     {CR}, <<BACKSLASH, "r">>),
                     {TAB}, <<BACKSLASH, "t">>)
         IN  [wrapped |-> TRUE, original_data |-> sanitized, length |-> Len(data),
              error |-> "Invalid JSON data"]

\* the text of each body: '', 'x' followed by a line feed, and a JSON text
BodyText(body) ==
    CASE body = "empty" -> <<>>
      [] body = "notjson" -> <<"x", LF>>
      [] OTHER -> <<"1">>

\* the texts sanitizeRequestData is applied to
DataInputs == UNION {[1..n -> Chars] : n \in 0..MaxData}

InitSanitize ==
    /\ HandlerIdle
    /\ TagIdle
    /\ RaceIdle
    /\ StatusIdle
    /\ sanIn \in DataInputs
    /\ sanOut = NoData
    /\ sanDone = FALSE

\* one call of sanitizeRequestData
SanitizeApply ==
    /\ ~sanDone
    /\ sanOut' = sanitizeRequestData(sanIn)
    /\ sanDone' = TRUE
    /\ UNCHANGED <<sanIn, handlerVars, tagVars, raceVars, statusVars>>

NextSanitize == SanitizeApply

SpecSanitize == InitSanitize /\ [][NextSanitize]_vars

\* ------------------------------------------------------- collaborators
\* persistError with the insert made a second time when it failed
persistError_retry(conn, ins, code, kind, data) ==
    [log |-> <<Ev("testConnection", 0, "", conn)>>
             \o (IF conn THEN <<Ev("insertErrorRecord", code, kind, ins)>> ELSE <<>>)
             \o (IF conn /\ ~ins THEN <<Ev("insertErrorRecord", code, kind, TRUE)>>
                 ELSE <<>>),
     rows |-> IF conn
              THEN <<[http_code |-> code, error_type |-> kind, request_data |-> data]>>
              ELSE <<>>]

\* persistError: the connectivity check, then the insert when it succeeded;
\* conn and ins are the outcomes of testConnection and insertErrorRecord
persistError(conn, ins, code, kind, data) ==
    [log |-> <<Ev("testConnection", 0, "", conn)>>
             \o (IF conn THEN <<Ev("insertErrorRecord", code, kind, ins)>> ELSE <<>>),
     rows |-> IF conn /\ ins
              THEN <<[http_code |-> code, error_type |-> kind, request_data |-> data]>>
              ELSE <<>>]

\* new DatabaseService(): the connection pool of `owner` is created
createPool(owner) == <<Ev("createPool", 0, owner, TRUE)>>

\* SlackService.sendWebhookNotification: nothing is posted without a channel
sendWebhookNotification(posted, action) ==
    <<Ev("sendWebhookNotification", 0, action, env.channelId # NoValue /\ posted)>>

Respond(status) == <<Ev("respond", status, "", TRUE)>>

\* ------------------------------------------------ the handler's branches
\* What each rejecting branch of the handler persists, whether it notifies,
\* and the status it returns.
SignatureRejection ==
    [code |-> 401, kind |-> "InvalidSignature", notify |-> TRUE,
     action |-> "Invalid webhook signature", status |-> 401, data |-> "none"]

\* the topic branch pasted from the domain branch, constants not adapted
TopicRejection_asDomain ==
    [code |-> 403, kind |-> "InvalidShopDomain", notify |-> FALSE,
     action |-> "", status |-> 403, data |-> "none"]

TopicRejection ==
    [code |-> 400, kind |-> "UnsupportedWebhookType", notify |-> FALSE,
     action |-> "", status |-> 400, data |-> "none"]

DomainRejection ==
    [code |-> 403, kind |-> "InvalidShopDomain", notify |-> FALSE,
     action |-> "", status |-> 403, data |-> "none"]

\* the parse exception left to the handler's outer catch block
ParseRejection_asGeneral ==
    [code |-> 500, kind |-> "SyntaxError", notify |-> TRUE,
     action |-> "General error", status |-> 500, data |-> "none"]

ParseRejection ==
    [code |-> 400, kind |-> "JSONParseError", notify |-> TRUE,
     action |-> "JSON parse error", status |-> 400, data |-> "body"]

TypeRejection ==
    [code |-> 400, kind |-> "UnsupportedDisputeType", notify |-> TRUE,
     action |-> "Unsupported dispute type", status |-> 400, data |-> "dispute"]

PipelineFailure ==
    [code |-> 500, kind |-> "ProcessingError", notify |-> TRUE,
     action |-> "Failed to process chargeback", status |-> 500, data |-> "none"]

\* request_data of a branch's error data: none, sanitizeRequestData(body) or
\* sanitizeRequestData(JSON.stringify(dispute))
RequestData(which) ==
    IF which = "none" THEN NoData ELSE sanitizeRequestData(BodyText(req.body))

\* persist, notify when the branch does, return
Reject(r) ==
    \E conn, ins, posted \in BOOLEAN :
        LET pe == persistError(conn, ins, r.code, r.kind, RequestData(r.data))
        IN  /\ log' = log \o pe.log
                          \o (IF r.notify THEN sendWebhookNotification(posted, r.action) ELSE <<>>)
                          \o Respond(r.status)
            /\ errTable' = errTable \o pe.rows
            /\ pc' = "done"

\* --------------------------------------------------------- the handler
HmacHeaders ==
    {NoValue, <<"A", "+">>, <<"A", "-">>, <<"B", "A">>, <<"B", "B">>, <<"A">>}
Topics ==
    {NoValue, "disputes/create", "disputes/update", "chargebacks/create",
     "chargebacks/update", "orders/create", "DISPUTES/CREATE"}
Domains == {NoValue, ShopDomain, "shop.myshopify.co"}

\* a second read of the body matters only when the first read gave ''
Requests ==
    {r \in [hmac : HmacHeaders, topic : Topics, domain : Domains, body : Bodies,
            reread : Rereads] : r.body # "empty" => r.reread = "text"}

\* the sender delivers the request `a` that it delivered as `b`: the same
\* headers and the same body
SameDelivery(a, b) ==
    /\ a.body = b.body
    /\ a.reread = b.reread
    /\ a.topic = b.topic
    /\ a.domain = b.domain
    /\ IF a.hmac = NoValue THEN b.hmac = NoValue
       ELSE IF b.hmac = NoValue THEN FALSE
       ELSE a.hmac = b.hmac

\* A request arrives; the handler constructs its services and reads the body.
Receive ==
    /\ pc = "idle"
    /\ nreq < MaxRequests
    /\ nreq' = nreq + 1
    /\ req' \in Requests
    /\ redelivered' = SameDelivery(req', lastAccepted)
    /\ lastAccepted' = NoRequest
    /\ log' = createPool("ChargebackService") \o createPool("handler")
    /\ pc' = "signature"
    /\ UNCHANGED <<env, errTable, procTable, dbAvailable, dispute, order,
                   result, platformTags, otherVars>>

\* The response has been returned: the invocation's services and locals are
\* gone; the customer's tags on the platform stay.
Finish ==
    /\ pc = "done"
    /\ pc' = "idle"
    /\ lastAccepted' = IF log[Len(log)].code = 200 THEN req ELSE NoRequest
    /\ redelivered' = FALSE
    /\ req' = NoRequest
    /\ log' = <<>>
    /\ errTable' = <<>>
    /\ procTable' = <<>>
    /\ dbAvailable' = FALSE
    /\ dispute' = NoDispute
    /\ order' = NoOrder
    /\ result' = NoOutcome
    /\ UNCHANGED <<env, platformTags, nreq, otherVars>>

SignatureGate ==
    /\ pc = "signature"
    /\ IF validateShopifyWebhook(req)
       THEN pc' = "topic" /\ UNCHANGED <<log, errTable>>
       ELSE Reject(SignatureRejection)
    /\ UNCHANGED <<env, req, procTable, dbAvailable, dispute, order, result,
                   platformTags, nreq, histVars, otherVars>>

TopicGate ==
    /\ pc = "topic"
    /\ IF validateChargebackWebhook(req)
       THEN pc' = "domain" /\ UNCHANGED <<log, errTable>>
       ELSE Reject(TopicRejection)
    /\ UNCHANGED <<env, req, procTable, dbAvailable, dispute, order, result,
                   platformTags, nreq, histVars, otherVars>>

DomainGate ==
    /\ pc = "domain"
    /\ IF validateShopDomain(req)
       THEN pc' = "parse" /\ UNCHANGED <<log, errTable>>
       ELSE Reject(DomainRejection)
    /\ UNCHANGED <<env, req, procTable, dbAvailable, dispute, order, result,
                   platformTags, nreq, histVars, otherVars>>

ParseGate ==
    /\ pc = "parse"
    /\ LET parsed == JSONParse(req.body)
       IN  IF parsed.ok
           THEN pc' = "type" /\ dispute' = parsed.value /\ UNCHANGED <<log, errTable>>
           ELSE Reject(ParseRejection) /\ UNCHANGED dispute
    /\ UNCHANGED <<env, req, procTable, dbAvailable, order, result,
                   platformTags, nreq, histVars, otherVars>>

\* a handler that lets every parsed dispute through to the pipeline
isChargeback_any(d) == TRUE

\* dispute.type !== 'chargeback', negated
isChargeback(d) == d.type = "chargeback"

\* Reading dispute.id of a null dispute throws a TypeError, which the
\* handler's outer catch receives.
TypeGate ==
    /\ pc = "type"
    /\ IF dispute.isNull
       THEN pc' = "outerCatch" /\ UNCHANGED <<log, errTable>>
       ELSE IF ~isChargeback(dispute)
       THEN Reject(TypeRejection)
       ELSE pc' = "pipeline" /\ UNCHANGED <<log, errTable>>
    /\ UNCHANGED <<env, req, procTable, dbAvailable, dispute, order, result,
                   platformTags, nreq, histVars, otherVars>>

\* ------------------------------------------------------------- commerce
\* What the commerce platform answers to the order request: 404, a
\* transport or server error, an order without customer, an order with its
\* customer, an order whose customer's tags field is not a string.
RemoteOutcomes == {"notfound", "error", "nocustomer", "customer", "badtags"}

\* ShopifyService.getOrder: null for a missing order and for any failure
getOrder(remote) ==
    CASE remote = "notfound" -> [found |-> FALSE, order |-> NoOrder]
      [] remote = "error" -> [found |-> FALSE, order |-> NoOrder]
      [] remote = "nocustomer" ->
            [found |-> TRUE, order |-> [customer |-> FALSE, tags |-> <<>>, tagsIsString |-> TRUE]]
      [] remote = "customer" ->
            [found |-> TRUE, order |-> [customer |-> TRUE, tags |-> platformTags, tagsIsString |-> TRUE]]
      [] remote = "badtags" ->
            [found |-> TRUE, order |-> [customer |-> TRUE, tags |-> <<>>, tagsIsString |-> FALSE]]

\* the missing order reported like any other pipeline failure
OrderNotFound_asFailure == [code |-> 404, kind |-> "OrderNotFound", status |-> 500]

OrderNotFound == [code |-> 404, kind |-> "OrderNotFound", status |-> 404]

\* processChargeback up to the order lookup
PipelineLookup ==
    /\ pc = "pipeline"
    /\ \E conn, ins \in BOOLEAN, remote \in RemoteOutcomes :
        LET got == getOrder(remote)
            seen == log \o <<Ev("testConnection", 0, "", conn), Ev("getOrder", 0, remote, got.found)>>
        IN  /\ dbAvailable' = conn
            /\ IF ~got.found
               THEN /\ log' = seen \o (IF conn
                                       THEN <<Ev("insertErrorRecord", OrderNotFound.code, OrderNotFound.kind, ins)>>
                                       ELSE <<>>)
                    /\ errTable' = errTable \o
                          (IF conn /\ ins
                           THEN <<[http_code |-> OrderNotFound.code, error_type |-> OrderNotFound.kind,
                                   request_data |-> NoData]>>
                           ELSE <<>>)
                    /\ result' = [success |-> FALSE, statusCode |-> OrderNotFound.status]
                    /\ pc' = "result"
                    /\ UNCHANGED order
               ELSE /\ log' = seen
                    /\ order' = got.order
                    /\ pc' = "process"
                    /\ UNCHANGED <<errTable, result>>
    /\ UNCHANGED <<env, req, procTable, dispute, platformTags, nreq, histVars, otherVars>>

\* the tags after the update never taken over into the record
finalTags_stale(customerTags, tagResult, updated) == customerTags

\* the new tags recorded whether or not the update succeeded
finalTags_claimed(customerTags, tagResult, updated) == tagResult.newTags

\* customer_tags_after: the new tags only when the update succeeded
finalTags(customerTags, tagResult, updated) ==
    IF updated THEN tagResult.newTags ELSE customerTags

\* processChargeback from the customer fields to the success return
PipelineProcess ==
    /\ pc = "process"
    /\ IF ~order.tagsIsString
       THEN \* applyTagLogic calls includes on a value that is not a string
            /\ pc' = "catch"
            /\ UNCHANGED <<log, procTable, result, platformTags>>
       ELSE \E updateSuccess, ins, posted \in BOOLEAN :
            LET customerTags == order.tags
                tagResult == applyTagLogic(customerTags)
                calls == tagResult.shouldUpdate /\ order.customer
                updated == calls /\ updateSuccess
                after == finalTags(customerTags, tagResult, updated)
            IN  /\ platformTags' = IF updated THEN tagResult.newTags ELSE platformTags
                /\ log' = log
                     \o (IF calls THEN <<Ev("updateCustomerTags", 0, "", updateSuccess)>> ELSE <<>>)
                     \o (IF dbAvailable THEN <<Ev("insertWebhookRecord", 0, "", ins)>> ELSE <<>>)
                     \o sendWebhookNotification(posted, tagResult.action)
                /\ procTable' = procTable \o
                     (IF dbAvailable /\ ins
                      THEN <<[customer_tags_before |-> customerTags,
                              customer_tags_after |-> after,
                              action |-> tagResult.action]>>
                      ELSE <<>>)
                /\ result' = [success |-> TRUE, statusCode |-> 200]
                /\ pc' = "result"
    /\ UNCHANGED <<env, req, errTable, dbAvailable, dispute, order, nreq, histVars, otherVars>>

\* the catch block labelling its record as the handler labels a failed pipeline
PipelineCaught_labelled == [code |-> 500, kind |-> "ProcessingError", status |-> 500,
                            action |-> "Failed to process chargeback"]

\* what the catch block of processChargeback persists and returns
PipelineCaught == [code |-> 500, kind |-> "TypeError", status |-> 500,
                   action |-> "Failed to process chargeback"]

\* the catch block of processChargeback
PipelineCatch ==
    /\ pc = "catch"
    /\ \E remote \in RemoteOutcomes, ins, posted \in BOOLEAN :
        /\ log' = log
             \o (IF dbAvailable
                 THEN <<Ev("getOrder", 0, remote, getOrder(remote).found),
                        Ev("insertErrorRecord", PipelineCaught.code, PipelineCaught.kind, ins)>>
                 ELSE <<>>)
             \o sendWebhookNotification(posted, PipelineCaught.action)
        /\ errTable' = errTable \o
             (IF dbAvailable /\ ins
              THEN <<[http_code |-> PipelineCaught.code, error_type |-> PipelineCaught.kind,
                      request_data |-> Unchanged(BodyText(req.body))]>>
              ELSE <<>>)
    /\ result' = [success |-> FALSE, statusCode |-> PipelineCaught.status]
    /\ pc' = "result"
    /\ UNCHANGED <<env, req, procTable, dbAvailable, dispute, order, platformTags,
                   nreq, histVars, otherVars>>

\* the handler after processChargeback returned
HandleResult ==
    /\ pc = "result"
    /\ IF result.success
       THEN /\ log' = log \o Respond(200)
            /\ pc' = "done"
            /\ UNCHANGED errTable
       ELSE IF result.statusCode = 404
       THEN /\ log' = log \o Respond(404)
            /\ pc' = "done"
            /\ UNCHANGED errTable
       ELSE Reject([PipelineFailure EXCEPT
                       !.code = IF result.statusCode # 0 THEN result.statusCode ELSE 500,
                       !.status = IF result.statusCode # 0 THEN result.statusCode ELSE 500])
    /\ UNCHANGED <<env, req, procTable, dbAvailable, dispute, order, result,
                   platformTags, nreq, histVars, otherVars>>

GeneralError == [code |-> 500, kind |-> "TypeError", status |-> 500,
                 action |-> "General error"]

\* the handler's outer catch: persist, notify, close the pipeline's pool
\* when its connectivity check had succeeded, return 500
OuterCatch ==
    /\ pc = "outerCatch"
    /\ \E conn, ins, posted \in BOOLEAN :
        LET pe == persistError(conn, ins, GeneralError.code, GeneralError.kind, NoData)
        IN  /\ log' = log \o pe.log
                          \o sendWebhookNotification(posted, GeneralError.action)
                          \o (IF dbAvailable THEN <<Ev("close", 0, "ChargebackService", TRUE)>>
                              ELSE <<>>)
                          \o Respond(GeneralError.status)
            /\ errTable' = errTable \o pe.rows
    /\ pc' = "done"
    /\ UNCHANGED <<env, req, procTable, dbAvailable, dispute, order, result,
                   platformTags, nreq, histVars, otherVars>>

\* ------------------------------------------------------- specification
Envs == [webhookSecret : {NoValue, Secret, OtherSecret},
         expectedDomain : {NoValue, ShopDomain},
         channelId : {NoValue, "C0123"}]

InitialTags == {<<>>, VIP, FLAG1, VIP \o SEP \o RISK}

Init ==
    /\ env \in Envs
    /\ pc = "idle"
    /\ req = NoRequest
    /\ log = <<>>
    /\ errTable = <<>>
    /\ procTable = <<>>
    /\ dbAvailable = FALSE
    /\ dispute = NoDispute
    /\ order = NoOrder
    /\ result = NoOutcome
    /\ platformTags \in InitialTags
    /\ nreq = 0
    /\ lastAccepted = NoRequest
    /\ redelivered = FALSE
    /\ TagIdle
    /\ SanIdle
    /\ RaceIdle
    /\ StatusIdle

Next ==
    \/ Receive
    \/ SignatureGate
    \/ TopicGate
    \/ DomainGate
    \/ ParseGate
    \/ TypeGate
    \/ PipelineLookup
    \/ PipelineProcess
    \/ PipelineCatch
    \/ HandleResult
    \/ OuterCatch
    \/ Finish

Spec == Init /\ [][Next]_vars

\* ------------------------------------------- concurrent invocations
\* Invocations of processChargeback for chargebacks of the same customer,
\* each on its own instance: the runtime interleaves them at their awaits.
InitRace ==
    /\ HandlerIdle
    /\ TagIdle
    /\ SanIdle
    /\ StatusIdle
    /\ raceStart \in InitialTags
    /\ raceTags = raceStart
    /\ racePc = [i \in 1..MaxInvocations |-> "start"]
    /\ raceRead = [i \in 1..MaxInvocations |-> <<>>]
    /\ raceOutcome = [i \in 1..MaxInvocations |-> "none"]

\* await getOrder: the invocation takes the customer's tags as they are now
RaceLookup(i) ==
    /\ racePc[i] = "start"
    /\ raceRead' = [raceRead EXCEPT ![i] = raceTags]
    /\ racePc' = [racePc EXCEPT ![i] = "read"]
    /\ UNCHANGED <<raceStart, raceTags, raceOutcome, handlerVars, tagVars, sanVars,
                   statusVars>>

\* applyTagLogic on the tags read, then await updateCustomerTags, which
\* replaces the customer's tags by newTags; the invocation returns 200
RaceUpdate(i) ==
    /\ racePc[i] = "read"
    /\ LET tagResult == applyTagLogic(raceRead[i])
       IN  IF tagResult.shouldUpdate
           THEN \E updateSuccess \in BOOLEAN :
                   /\ raceTags' = IF updateSuccess THEN tagResult.newTags ELSE raceTags
                   /\ raceOutcome' = [raceOutcome EXCEPT
                          ![i] = IF updateSuccess THEN "updated" ELSE "failed"]
           ELSE /\ raceOutcome' = [raceOutcome EXCEPT ![i] = "noop"]
                /\ UNCHANGED raceTags
    /\ racePc' = [racePc EXCEPT ![i] = "done"]
    /\ UNCHANGED <<raceStart, raceRead, handlerVars, tagVars, sanVars, statusVars>>

NextRace ==
    \/ \E i \in 1..MaxInvocations : RaceLookup(i)
    \/ \E i \in 1..MaxInvocations : RaceUpdate(i)

SpecRace == InitRace /\ [][NextRace]_vars

\* ------------------------------------------------------ status endpoint
\* which of SHOPIFY_SHOP_DOMAIN, SHOPIFY_ACCESS_TOKEN and SLACK_BOT_TOKEN
\* are set
StatusEnvs == [shopDomain : BOOLEAN, accessToken : BOOLEAN, slackToken : BOOLEAN]

InitStatus ==
    /\ HandlerIdle
    /\ TagIdle
    /\ SanIdle
    /\ RaceIdle
    /\ stPc = "idle"
    /\ stEnv \in StatusEnvs
    /\ stConn = FALSE
    /\ stResponse = NoStatusResponse
    /\ stLog = <<>>

\* the handler constructs its DatabaseService and builds statusResponse from
\* the configuration
StatusStart ==
    /\ stPc = "idle"
    /\ stLog' = createPool("status")
    /\ stResponse' =
          [http |-> 0, status |-> "running", database |-> "disconnected",
           shopify |-> IF stEnv.shopDomain /\ stEnv.accessToken
                       THEN "configured" ELSE "not_configured",
           slack |-> IF stEnv.slackToken THEN "configured" ELSE "not_configured",
           metrics |-> ZeroMetrics]
    /\ stPc' = "database"
    /\ UNCHANGED <<stEnv, stConn, handlerVars, tagVars, sanVars, raceVars>>

\* await databaseService.testConnection(), which returns its result and
\* never throws, then services.database = 'connected'
StatusCheckDatabase ==
    /\ stPc = "database"
    /\ \E conn \in BOOLEAN :
          /\ stConn' = conn
          /\ stLog' = stLog \o <<Ev("testConnection", 0, "", conn)>>
    /\ stResponse' = [stResponse EXCEPT !.database = "connected"]
    /\ stPc' = "metrics"
    /\ UNCHANGED <<stEnv, handlerVars, tagVars, sanVars, raceVars>>

\* getMetrics: the five counting queries; the counts when all succeed (c rows
\* in tab_wbk_itm and e rows in tab_sis_err, all of today), zeros when one
\* throws; then the response
StatusMetrics ==
    /\ stPc = "metrics"
    /\ \E ok \in BOOLEAN, c, e \in 0..MaxCount :
          /\ stLog' = stLog \o <<Ev("query", 0, "SELECT", ok)>> \o Respond(200)
          /\ stResponse' =
                [stResponse EXCEPT
                    !.http = 200,
                    !.metrics = IF ok
                                THEN [total_chargebacks |-> c, chargebacks_today |-> c,
                                      chargebacks_this_month |-> c,
                                      errors_today |-> e, errors_this_month |-> e]
                                ELSE ZeroMetrics]
    /\ stPc' = "done"
    /\ UNCHANGED <<stEnv, stConn, handlerVars, tagVars, sanVars, raceVars>>

NextStatus ==
    \/ StatusStart
    \/ StatusCheckDatabase
    \/ StatusMetrics

SpecStatus == InitStatus /\ [][NextStatus]_vars

\* =============================================================== claims
Done == pc = "done"

\* the status of the response (the response is the last side effect)
Status == log[Len(log)].code

Positions(op) == {i \in 1..Len(log) : log[i].op = op}
Notifications == Count(log, "sendWebhookNotification")
InsertOps == {"insertErrorRecord", "insertWebhookRecord"}
CommerceOps == {"getOrder", "updateCustomerTags"}

\* the earliest of the five request checks that the request fails
FirstFailing(r) ==
    IF ~validateShopifyWebhook(r) THEN "signature"
    ELSE IF ~validateChargebackWebhook(r) THEN "topic"
    ELSE IF ~validateShopDomain(r) THEN "domain"
    ELSE IF ~JSONParse(r.body).ok THEN "parse"
    ELSE IF ~JSONParse(r.body).value.isNull /\ JSONParse(r.body).value.type # "chargeback"
    THEN "type"
    ELSE "none"

\* number of the five checks that the request fails, each taken alone
FailedChecks(r) ==
    Cardinality({c \in {"signature", "topic", "domain", "parse"} :
        \/ c = "signature" /\ ~validateShopifyWebhook(r)
        \/ c = "topic" /\ ~validateChargebackWebhook(r)
        \/ c = "domain" /\ ~validateShopDomain(r)
        \/ c = "parse" /\ ~JSONParse(r.body).ok})

GateStatus(k) ==
    CASE k = "signature" -> 401
      [] k = "topic" -> 400
      [] k = "domain" -> 403
      [] k = "parse" -> 400
      [] k = "type" -> 400

GateKind(k) ==
    CASE k = "signature" -> "InvalidSignature"
      [] k = "topic" -> "UnsupportedWebhookType"
      [] k = "domain" -> "InvalidShopDomain"
      [] k = "parse" -> "JSONParseError"
      [] k = "type" -> "UnsupportedDisputeType"

\* status and error kind are those of the earliest failing check
GateDecides(k) ==
    /\ Status = GateStatus(k)
    /\ \A i \in 1..Len(errTable) :
          errTable[i].http_code = GateStatus(k) /\ errTable[i].error_type = GateKind(k)
    /\ \A i \in Positions("insertErrorRecord") :
          log[i].code = GateStatus(k) /\ log[i].kind = GateKind(k)
    /\ Len(procTable) = 0

C2_OneResponseAtMostOneRecord ==
    Done => /\ Count(log, "respond") = 1
            /\ Len(errTable) + Len(procTable) <= 1

\* C3 as stated: every failure outcome other than order-not-found (404)
\* sends a notification before the response is returned.
C3_FailureNotifiedUnless404 ==
    (Done /\ Status \notin {200, 404}) => Notifications >= 1

\* C4 as stated, its first half: no request causes more than one
\* notification attempt, on any path through the handler and the pipeline.
C4_AtMostOneNotification ==
    Done => Notifications <= 1

\* C5 as stated: once a notification send has been attempted, no insert into
\* the processed-webhook table or the error table is attempted afterwards.
C5_NoInsertAfterNotification ==
    \A i \in Positions("sendWebhookNotification") :
        \A j \in (i + 1)..Len(log) : log[j].op \notin InsertOps

\* the order lookup of the pipeline (the first getOrder) returned no order
LookupFoundNothing ==
    /\ Positions("getOrder") # {}
    /\ \A i \in Positions("getOrder") :
          (\A j \in Positions("getOrder") : i <= j) => ~log[i].ok

OrderNotFoundRow ==
    [http_code |-> 404, error_type |-> "OrderNotFound", request_data |-> NoData]

\* C6 as stated: when the order lookup returns no order, the answer is 404,
\* exactly one ErrorRecord (404, OrderNotFound) is written, no notification
\* is sent, no tag update is requested and no ProcessedWebhookRecord written.
C6_OrderNotFoundOneRecord ==
    (Done /\ LookupFoundNothing) =>
        /\ Status = 404
        /\ errTable = <<OrderNotFoundRow>>
        /\ Notifications = 0
        /\ Count(log, "updateCustomerTags") = 0
        /\ Len(procTable) = 0

\* C6 amended: when the order lookup returns no order, the answer is 404, no
\* notification is sent, no tag update is requested, no
\* ProcessedWebhookRecord is written, and the ErrorRecord (404,
\* OrderNotFound) is inserted once exactly when the connectivity check
\* succeeded; it is written exactly when that insert succeeded, otherwise no
\* ErrorRecord is written.
C6_OrderNotFound ==
    (Done /\ LookupFoundNothing) =>
        /\ Status = 404
        /\ Notifications = 0
        /\ Count(log, "updateCustomerTags") = 0
        /\ Len(procTable) = 0
        /\ Count(log, "testConnection") = 1
        /\ Count(log, "insertErrorRecord") = (IF dbAvailable THEN 1 ELSE 0)
        /\ \A i \in Positions("insertErrorRecord") :
              /\ log[i].code = 404 /\ log[i].kind = "OrderNotFound"
              /\ errTable = (IF log[i].ok THEN <<OrderNotFoundRow>> ELSE <<>>)
        /\ ~dbAvailable => errTable = <<>>

\* C6 witness: an order-not-found request was answered with its ErrorRecord
\* stored.
C6_Witness ==
    /\ Done
    /\ LookupFoundNothing
    /\ Status = 404
    /\ errTable = <<OrderNotFoundRow>>

\* the customer of the order had no tags and the tag update succeeded
UntaggedCustomerUpdated ==
    /\ order.customer
    /\ order.tags = <<>>
    /\ \E i \in Positions("updateCustomerTags") : log[i].ok

\* C7 as stated: a request answered 200 produced exactly one
\* ProcessedWebhookRecord and one notification, with tags "" ->
\* "chargeback_flag1" for an untagged customer whose update succeeded; no
\* ProcessedWebhookRecord is written under any other status.
C7_SuccessOneRecord ==
    /\ (Done /\ Status = 200) =>
          /\ Len(procTable) = 1
          /\ Notifications = 1
          /\ UntaggedCustomerUpdated =>
                /\ procTable[1].customer_tags_before = <<>>
                /\ procTable[1].customer_tags_after = FLAG1
    /\ (Done /\ Status # 200) => Len(procTable) = 0

\* C7 amended: a request answered 200 made exactly one notification attempt
\* and at most one ProcessedWebhookRecord: the insert is attempted once
\* exactly when the pipeline's connectivity check succeeded, and the record
\* is written exactly when that insert succeeded; a written record has tags
\* "" -> "chargeback_flag1" for an untagged customer whose update succeeded;
\* no ProcessedWebhookRecord is written under any other status.
C7_SuccessAtMostOneRecord ==
    /\ (Done /\ Status = 200) =>
          /\ Notifications = 1
          /\ Count(log, "insertWebhookRecord") = (IF dbAvailable THEN 1 ELSE 0)
          /\ Len(procTable) =
                Cardinality({i \in Positions("insertWebhookRecord") : log[i].ok})
          /\ Len(errTable) = 0
          /\ \A i \in 1..Len(procTable) :
                UntaggedCustomerUpdated =>
                    /\ procTable[i].customer_tags_before = <<>>
                    /\ procTable[i].customer_tags_after = FLAG1
    /\ (Done /\ Status # 200) => Len(procTable) = 0

\* C7 witness: an untagged customer's chargeback was processed, the update
\* succeeded and the record was stored.
C7_Witness ==
    /\ Done
    /\ Status = 200
    /\ UntaggedCustomerUpdated
    /\ Len(procTable) = 1
    /\ procTable[1].customer_tags_after = FLAG1

\* C8: no getOrder or updateCustomerTags call is made for a request that a
\* gate rejects, and a commerce call is only ever made after the signature,
\* topic, domain, JSON and dispute-type checks have all passed.
C8_NoCommerceCallBeforeGatesPass ==
    /\ (Done /\ Status \in {400, 401, 403}) =>
          \A i \in 1..Len(log) : log[i].op \notin CommerceOps
    /\ (\E i \in 1..Len(log) : log[i].op \in CommerceOps) =>
          /\ validateShopifyWebhook(req)
          /\ validateChargebackWebhook(req)
          /\ validateShopDomain(req)
          /\ JSONParse(req.body).ok
          /\ JSONParse(req.body).value.type = "chargeback"

\* C8 witness: a dispute of type "refund" that passed the four earlier checks
\* was answered 400 without any commerce call.
C8_Witness ==
    /\ Done
    /\ Status = 400
    /\ validateShopifyWebhook(req)
    /\ validateChargebackWebhook(req)
    /\ validateShopDomain(req)
    /\ req.body = "refund"
    /\ \A i \in 1..Len(log) : log[i].op \notin CommerceOps

\* the string contains neither label
Untagged(t) == ~includes(t, FLAG1) /\ ~includes(t, RISK)

\* the label appended to a tag string, comma-separated when tags exist
WithLabel(t, label) == IF Len(t) = 0 THEN label ELSE t \o <<",", " ">> \o label

\* C9: starting from a tag string with neither label, the first application
\* adds chargeback_flag1, the second adds chargeback_risk, and the third and
\* every later one is a no-op (shouldUpdate false, newTags unchanged).
C9_TagLadder ==
    Untagged(tagStart) =>
        /\ tagStep = 1 =>
              tagRes.shouldUpdate /\ tagRes.newTags = WithLabel(tagStart, FLAG1)
        /\ tagStep = 2 =>
              /\ tagRes.shouldUpdate
              /\ tagRes.newTags = WithLabel(WithLabel(tagStart, FLAG1), RISK)
        /\ tagStep >= 3 =>
              /\ ~tagRes.shouldUpdate
              /\ tagRes.newTags = tagPrev
              /\ tagRes.newTags = WithLabel(WithLabel(tagStart, FLAG1), RISK)

\* C9 witness: a non-empty string with neither label after three
\* applications.
C9_Witness ==
    /\ Untagged(tagStart)
    /\ Len(tagStart) > 0
    /\ tagStep = 3
    /\ ~tagRes.shouldUpdate

\* C10: chargeback_risk takes precedence: with it, no update and the tags
\* unchanged (also without chargeback_flag1); else without chargeback_flag1
\* that label is appended; else chargeback_risk is appended; the current
\* tags are always a prefix of the new tags.
C10_TagRule ==
    tagStep >= 1 =>
        /\ includes(tagPrev, RISK) =>
              ~tagRes.shouldUpdate /\ tagRes.newTags = tagPrev
        /\ (~includes(tagPrev, RISK) /\ ~includes(tagPrev, FLAG1)) =>
              tagRes.shouldUpdate /\ tagRes.newTags = WithLabel(tagPrev, FLAG1)
        /\ (~includes(tagPrev, RISK) /\ includes(tagPrev, FLAG1)) =>
              tagRes.shouldUpdate /\ tagRes.newTags = tagPrev \o <<",", " ">> \o RISK
        /\ IsPrefix(tagPrev, tagRes.newTags)

\* C10 witness: the rule was applied to a string that has chargeback_risk
\* but not chargeback_flag1.
C10_Witness ==
    /\ tagStep >= 1
    /\ includes(tagPrev, RISK)
    /\ ~includes(tagPrev, FLAG1)
    /\ tagRes.newTags = tagPrev

\* ----------------------------------------------------------------- C11
\* the lookup of this request returned an order whose customer's tag string
\* already holds the risk tag
RiskCustomerFound ==
    /\ order.customer
    /\ order.tagsIsString
    /\ includes(order.tags, RISK)

\* C11: once the customer's tags hold "chargeback_risk", a further chargeback
\* event makes no updateCustomerTags call, leaves the platform's tags as they
\* were read, records customer_tags_after equal to customer_tags_before, and
\* is still answered 200.
C11_RiskLevelIdempotent ==
    (Done /\ RiskCustomerFound) =>
        /\ Status = 200
        /\ Count(log, "updateCustomerTags") = 0
        /\ platformTags = order.tags
        /\ \A i \in 1..Len(procTable) :
               /\ procTable[i].customer_tags_before = order.tags
               /\ procTable[i].customer_tags_after = procTable[i].customer_tags_before

\* the second event of a run finds the risk tag set and its record is written
C11_Witness ==
    /\ Done
    /\ RiskCustomerFound
    /\ nreq = 2
    /\ Len(procTable) = 1
    /\ Status = 200

\* ----------------------------------------------------------------- C12
\* the pipeline called updateCustomerTags and the call reported `ok`
TagUpdateReported(ok) ==
    \E i \in Positions("updateCustomerTags") : log[i].ok = ok

\* the record of a request whose tag update reported `ok`
TagUpdateRecord(ok) ==
    [customer_tags_before |-> order.tags,
     customer_tags_after |-> IF ok THEN applyTagLogic(order.tags).newTags
                             ELSE order.tags,
     action |-> applyTagLogic(order.tags).action]

\* what C12 says of everything but the record's existence: status 200, the
\* success notification, the platform's tags and the contents of the record
TagUpdateOutcome(ok) ==
    /\ Status = 200
    /\ Notifications = 1
    /\ \A i \in Positions("sendWebhookNotification") :
           log[i].kind = applyTagLogic(order.tags).action
    /\ Count(log, "insertErrorRecord") = 0
    /\ platformTags = TagUpdateRecord(ok).customer_tags_after
    /\ \A i \in 1..Len(procTable) : procTable[i] = TagUpdateRecord(ok)
    /\ ok => TagUpdateRecord(ok).customer_tags_after # order.tags

\* C12 as stated: when updateCustomerTags reports failure the
\* ProcessedWebhookRecord is still written, with customer_tags_after equal to
\* customer_tags_before, the success notification is still sent and the
\* status is 200; when the update succeeds customer_tags_after is the new
\* tag string.
C12_RecordStillWritten ==
    \A ok \in BOOLEAN :
        (Done /\ TagUpdateReported(ok)) =>
            /\ TagUpdateOutcome(ok)
            /\ ~ok => Len(procTable) = 1

\* C12 (amended): a failed updateCustomerTags is not a pipeline failure: the
\* status is 200, the success notification is still attempted, no ErrorRecord
\* is inserted, the insert of the ProcessedWebhookRecord is attempted exactly
\* when the pipeline's connectivity check succeeded, and a written record has
\* customer_tags_after equal to customer_tags_before; when the update
\* succeeds a written record has customer_tags_after equal to the new tags.
C12_TagUpdateFailureTolerated ==
    \A ok \in BOOLEAN :
        (Done /\ TagUpdateReported(ok)) =>
            /\ TagUpdateOutcome(ok)
            /\ Count(log, "insertWebhookRecord") = (IF dbAvailable THEN 1 ELSE 0)
            /\ Len(procTable) <= 1

\* the update failed and the record was written with the tags unchanged
C12_Witness ==
    /\ Done
    /\ TagUpdateReported(FALSE)
    /\ Len(procTable) = 1
    /\ procTable[1].customer_tags_after = procTable[1].customer_tags_before
    /\ procTable[1].action = ActionFlag1

\* ----------------------------------------------------------------- C13
\* what the commerce platform answered to the pipeline's lookup
LookupAnswer ==
    log[CHOOSE i \in Positions("getOrder") :
            \A j \in Positions("getOrder") : i <= j].kind

\* the status as the request, the configuration and the commerce platform's
\* answer decide it, with no part for the database or the chat service
StatusWithoutSinks ==
    IF FirstFailing(req) # "none" THEN GateStatus(FirstFailing(req))
    ELSE IF JSONParse(req.body).value.isNull THEN 500
    ELSE IF LookupAnswer \in {"notfound", "error"} THEN 404
    ELSE IF LookupAnswer = "badtags" THEN 500
    ELSE 200

\* an attempt of the sinks that failed
SinkFailures ==
    {i \in 1..Len(log) :
        /\ log[i].op \in InsertOps \cup {"testConnection", "sendWebhookNotification"}
        /\ ~log[i].ok}

\* C13: persistence and notification are best-effort: the status is the same
\* whatever the connectivity check, each insert and the chat post report; a
\* failing one raises no exception (the handler goes on to its response, and
\* the catch blocks are entered only for what the request data did); and no
\* insert that failed is made again.
C13_BestEffortSinks ==
    /\ Done => Status = StatusWithoutSinks
    /\ Done => \A i \in SinkFailures : i < Len(log) /\ log[Len(log)].op = "respond"
    /\ pc = "catch" => ~order.tagsIsString
    /\ pc = "outerCatch" => dispute.isNull
    /\ \A i, j \in Positions("insertErrorRecord") \cup Positions("insertWebhookRecord") :
           (i < j /\ ~log[i].ok) =>
               <<log[i].op, log[i].code, log[i].kind>> # <<log[j].op, log[j].code, log[j].kind>>

\* a chargeback answered 200 although the connectivity check succeeded, the
\* insert of its record failed and the chat post failed
C13_Witness ==
    /\ Done
    /\ Status = 200
    /\ dbAvailable
    /\ \E i \in Positions("insertWebhookRecord") : ~log[i].ok
    /\ \E i \in Positions("sendWebhookNotification") : ~log[i].ok
    /\ Len(procTable) = 0

\* ----------------------------------------------------------------- C14
\* processChargeback has returned to the handler after an exception was
\* raised inside it
PipelineReturnedAfterThrow == pc = "result" /\ ~order.tagsIsString

\* what holds of every exception inside processChargeback: it does not reach
\* the handler's catch block, the outcome is failure with status 500 and the
\* generic failure notification is attempted once
CaughtInsidePipeline ==
    /\ pc = "outerCatch" => order = NoOrder
    /\ PipelineReturnedAfterThrow =>
          /\ result = [success |-> FALSE, statusCode |-> 500]
          /\ Notifications = 1
          /\ \A i \in Positions("sendWebhookNotification") :
                 log[i].kind = "Failed to process chargeback"
          /\ Len(procTable) = 0

\* C14 as stated: any exception raised inside processChargeback is caught
\* inside it: it never reaches the handler, an ErrorRecord with http_code 500
\* and kind ProcessingError is persisted, the generic failure notification is
\* sent and the outcome returned is failure with status 500.
C14_CaughtAsProcessingError ==
    /\ CaughtInsidePipeline
    /\ PipelineReturnedAfterThrow =>
          \E i \in 1..Len(errTable) :
              /\ errTable[i].http_code = 500
              /\ errTable[i].error_type = "ProcessingError"

\* C14 (amended): any exception raised inside processChargeback is caught
\* inside it: it never reaches the handler, the generic failure notification
\* is attempted and the outcome returned is failure with status 500; the
\* catch block attempts one ErrorRecord insert exactly when the pipeline's
\* connectivity check had succeeded, with http_code 500 and the exception's
\* class name as its kind.
C14_CaughtWithClassName ==
    /\ CaughtInsidePipeline
    /\ PipelineReturnedAfterThrow =>
          /\ Count(log, "insertErrorRecord") = (IF dbAvailable THEN 1 ELSE 0)
          /\ \A i \in Positions("insertErrorRecord") :
                 log[i].code = 500 /\ log[i].kind = "TypeError"
          /\ Len(errTable) <= 1
          /\ \A i \in 1..Len(errTable) :
                 /\ errTable[i].http_code = 500
                 /\ errTable[i].error_type = "TypeError"

\* the exception was caught and its record written before the return
C14_Witness ==
    /\ PipelineReturnedAfterThrow
    /\ Len(errTable) = 1
    /\ errTable[1].error_type = "TypeError"
    /\ result.statusCode = 500

\* ----------------------------------------------------------------- C15
\* the pipeline's lookup failed for a reason other than a missing order
LookupTransportFailure ==
    /\ Positions("getOrder") # {}
    /\ LookupAnswer = "error"

\* C15: a getOrder that fails for a reason other than the order not existing
\* (network error, 401 or 500 from the platform) is not reported as
\* order-not-found: the request is not answered 404 with the notification
\* suppressed, it is handled as a processing failure, answered 500 with a
\* notification sent.
C15_TransportFailureIsProcessingFailure ==
    (Done /\ LookupTransportFailure) =>
        /\ Status = 500
        /\ Notifications >= 1
        /\ \A i \in 1..Len(errTable) : errTable[i].error_type # "OrderNotFound"

\* ----------------------------------------------------------------- C16
\* the handler has applied validateShopifyWebhook to the request
SignatureDecided == pc \notin {"idle", "signature"}

\* the request was turned away by the signature check
SignatureRejected ==
    /\ Done
    /\ Status = 401
    /\ Count(log, "getOrder") = 0

\* C16: with no shared secret configured validateShopifyWebhook is false for
\* every request, whatever its body and signature header, and the handler
\* answers 401 without reaching the topic check.
C16_FailsClosedWithoutSecret ==
    env.webhookSecret = NoValue =>
        /\ pc # "idle" => ~validateShopifyWebhook(req)
        /\ pc \in {"idle", "signature", "done"}
        /\ Done => /\ SignatureRejected
                   /\ \A i \in Positions("insertErrorRecord") :
                          log[i].kind = "InvalidSignature"

\* without a secret, a request carrying the right signature of its body was
\* answered 401
C16_Witness ==
    /\ env.webhookSecret = NoValue
    /\ SignatureRejected
    /\ req.hmac = Digest(req.body)
    /\ validateChargebackWebhook(req)

\* ----------------------------------------------------------------- C17
\* the request passed the signature check and went on to the topic check
ReachedTopicCheck == SignatureDecided /\ ~SignatureRejected

\* the handler read '' as the body and the second read of the request throws
BodyUnreadable(r) == r.body = "empty" /\ r.reread = "throws"

\* C17 as stated: every request without the signature header verifies true,
\* whatever its body and whatever the secret, and proceeds to the topic check.
C17_MissingHeaderVerifies ==
    (SignatureDecided /\ req.hmac = NoValue) =>
        /\ validateShopifyWebhook(req)
        /\ ReachedTopicCheck

\* C17 (amended): with a shared secret configured, a request without the
\* signature header verifies true and proceeds to the topic check, whatever
\* the secret's value and whatever its body, unless the body is empty and
\* the request cannot be read a second time.
C17_MissingHeaderVerifiesUnderSecret ==
    (SignatureDecided /\ req.hmac = NoValue /\ env.webhookSecret # NoValue
        /\ ~BodyUnreadable(req)) =>
        /\ validateShopifyWebhook(req)
        /\ ReachedTopicCheck

\* under the secret the sender does not sign with, a chargeback without the
\* header was processed
C17_Witness ==
    /\ Done
    /\ req.hmac = NoValue
    /\ env.webhookSecret = OtherSecret
    /\ req.body = "chargeback"
    /\ Status = 200

\* ----------------------------------------------------------------- C18
\* a secret is configured and the request carries a signature header
SignaturePresented ==
    /\ SignatureDecided
    /\ env.webhookSecret # NoValue
    /\ req.hmac # NoValue

\* the two base64 texts spell the same bytes: they agree character for
\* character once the URL-safe '-' is read as '+'
SameBytes(a, b) ==
    /\ Len(a) = Len(b)
    /\ \A i \in 1..Len(a) :
           (IF a[i] = "-" THEN "+" ELSE a[i]) = (IF b[i] = "-" THEN "+" ELSE b[i])

\* the verdict is `accept`, returned as a value: the request went on to the
\* topic check when it is true and was answered 401 when it is false
SignatureVerdict(accept) ==
    /\ validateShopifyWebhook(req) = accept
    /\ ReachedTopicCheck = accept
    /\ pc # "outerCatch" \/ dispute.isNull

TopicDecided == ReachedTopicCheck /\ pc # "topic"

\* the request was turned away by the topic check: 400 with no notification
TopicRejected ==
    /\ Done
    /\ Status = 400
    /\ Notifications = 0

\* C19: validateChargebackWebhook is true exactly when the topic header is
\* one of disputes/create, disputes/update, chargebacks/create and
\* chargebacks/update; for every other string and for an absent header it is
\* false, and the handler turns the request away.
C19_FourTopicsPass ==
    LET listed == req.topic \in {"disputes/create", "disputes/update",
                                 "chargebacks/create", "chargebacks/update"}
    IN  /\ pc # "idle" => (validateChargebackWebhook(req) <=> listed)
        /\ TopicDecided => (TopicRejected <=> ~listed)
        /\ TopicDecided /\ ~listed =>
              \A i \in Positions("insertErrorRecord") :
                  log[i].kind = "UnsupportedWebhookType"

\* an event with the topic chargebacks/update was processed
C19_Witness ==
    /\ Done
    /\ TopicDecided
    /\ req.topic = "chargebacks/update"
    /\ Status = 200

\* ----------------------------------------------------------------- C20
\* the handler has applied validateShopDomain to the request
DomainDecided == TopicDecided /\ ~TopicRejected /\ pc # "domain"

\* the request was turned away by the domain check
DomainRejected == Done /\ Status = 403

\* C20: with no expected domain configured validateShopDomain passes every
\* request, one without the domain header included; with one configured it
\* passes exactly when the header is present and equal to it.
C20_DomainPassesWhenUnsetOrEqual ==
    LET passes == \/ env.expectedDomain = NoValue
                  \/ req.domain # NoValue /\ req.domain = env.expectedDomain
    IN  /\ pc # "idle" => (validateShopDomain(req) <=> passes)
        /\ DomainDecided => (DomainRejected <=> ~passes)
        /\ DomainDecided /\ ~passes =>
              \A i \in Positions("insertErrorRecord") :
                  log[i].kind = "InvalidShopDomain"

\* with no expected domain configured, a chargeback without the domain
\* header was processed
C20_Witness ==
    /\ Done
    /\ DomainDecided
    /\ env.expectedDomain = NoValue
    /\ req.domain = NoValue
    /\ Status = 200

\* ----------------------------------------------------------------- C21
\* the request passed the signature, topic and domain checks and its body is
\* not a JSON text
ParseFailed == Done /\ FirstFailing(req) = "parse"

\* the row is the JSONParseError record with the sanitized body: the object
\* {original_data, length, error} with no control character left in
\* original_data and the length of the body as received
SanitizedParseRow(row) ==
    /\ row.http_code = 400
    /\ row.error_type = "JSONParseError"
    /\ row.request_data.wrapped
    /\ row.request_data.length = Len(BodyText(req.body))
    /\ \A k \in 1..Len(row.request_data.original_data) :
           row.request_data.original_data[k] \notin ControlChars

\* the parse exception stayed inside the handler's parse branch: status 400,
\* no 500 and no record of another kind
ParseErrorAnswered400 ==
    /\ Status = 400
    /\ \A i \in 1..Len(log) : log[i].code # 500
    /\ \A i \in Positions("insertErrorRecord") : log[i].kind = "JSONParseError"
    /\ Count(log, "getOrder") = 0

\* C21 as stated: a request that passes the signature, topic and domain
\* checks but whose body is not valid JSON is answered 400, an ErrorRecord of
\* kind JSONParseError carrying the sanitized payload is persisted, and the
\* parse exception neither escapes the handler nor becomes a 500.
C21_ParseErrorPersisted ==
    ParseFailed =>
        /\ ParseErrorAnswered400
        /\ Len(errTable) = 1
        /\ SanitizedParseRow(errTable[1])

\* C21 (amended): such a request is answered 400 and the parse exception
\* neither escapes the handler nor becomes a 500; the insert of the
\* JSONParseError record is attempted once, exactly when the handler's
\* connectivity check succeeded, and a record that is written carries the
\* sanitized payload.
C21_ParseErrorAnswered400 ==
    ParseFailed =>
        /\ ParseErrorAnswered400
        /\ Count(log, "testConnection") = 1
        /\ \A i \in Positions("testConnection") :
               log[i].ok <=> Count(log, "insertErrorRecord") = 1
        /\ Len(errTable) <= 1
        /\ \A i \in 1..Len(errTable) : SanitizedParseRow(errTable[i])

\* a body with a line feed in it was answered 400 and its record written
C21_Witness ==
    /\ ParseFailed
    /\ req.body = "notjson"
    /\ req.hmac = Hmac(env.webhookSecret, req.body)
    /\ Len(errTable) = 1
    /\ SanitizedParseRow(errTable[1])

\* ----------------------------------------------------------------- C22
\* the request handled is the delivery, with a signature header, that was
\* answered 200 just before, delivered again unchanged
RedeliveredSigned ==
    /\ redelivered
    /\ req.hmac # NoValue
    /\ validateShopifyWebhook(req)

\* C22: a signed request that was accepted and processed is, when delivered
\* again unchanged, not processed a second time: it causes no further
\* customer tag update and no second ProcessedWebhookRecord.
C22_RedeliveryNotProcessed ==
    (Done /\ RedeliveredSigned) =>
        /\ Count(log, "updateCustomerTags") = 0
        /\ Count(log, "insertWebhookRecord") = 0
        /\ Len(procTable) = 0

\* ----------------------------------------------------------------- C23
\* the text C23 describes for original_data: the other control characters
\* stripped, each line feed, carriage return and tab in its escaped
\* two-character form
EscapedForm(data) ==
    ReplaceAll(ReplaceAll(ReplaceAll(ReplaceAll(data,
        ControlChars \ {LF, CR, TAB}, <<>>),
        {LF}, <<BACKSLASH, "n">>),
        {CR}, <<BACKSLASH, "r">>),
        {TAB}, <<BACKSLASH, "t">>)

\* C23: sanitizeRequestData returns a JSON text unchanged and any other text
\* as the object {original_data, length, error}, where original_data is the
\* input with control characters stripped and each line feed, carriage
\* return and tab kept in its escaped two-character form, and length is the
\* length of the input.
C23_SanitizedEscaped ==
    sanDone =>
        IF JSONValid(sanIn)
        THEN sanOut = Unchanged(sanIn)
        ELSE /\ sanOut.wrapped
             /\ sanOut.length = Len(sanIn)
             /\ sanOut.error = "Invalid JSON data"
             /\ sanOut.original_data = EscapedForm(sanIn)

\* ----------------------------------------------------------------- C24
\* C24: the connectivity check is made at most once while one event is
\* handled, on every path, and its result decides whether the event's
\* inserts are attempted: no insert is attempted when it failed.
C24_ConnectivityCheckedOnce ==
    Done =>
        /\ Count(log, "testConnection") <= 1
        /\ \A i \in Positions("testConnection") :
               ~log[i].ok =>
                   /\ Count(log, "insertErrorRecord") = 0
                   /\ Count(log, "insertWebhookRecord") = 0

\* ----------------------------------------------------------------- C25
\* C25: under any interleaving of invocations for the same customer every
\* write of the customer's tags keeps the labels present just before it:
\* once "chargeback_risk" (or "chargeback_flag1") is on the platform, no
\* later write removes it.
C25_TagsMonotonic ==
    [][/\ includes(raceTags, RISK) => includes(raceTags', RISK)
       /\ includes(raceTags, FLAG1) => includes(raceTags', FLAG1)]_vars

\* ----------------------------------------------------------------- C26
\* exactly two invocations ran, both to the end with a successful tag update
TwoUpdatesCompleted ==
    \E i, j \in 1..MaxInvocations :
        /\ i # j
        /\ raceOutcome[i] = "updated" /\ racePc[i] = "done"
        /\ raceOutcome[j] = "updated" /\ racePc[j] = "done"
        /\ \A k \in 1..MaxInvocations \ {i, j} : racePc[k] = "start"

\* C26: after two chargeback events for the same initially untagged customer
\* have both completed with successful tag updates, the customer's tags
\* contain "chargeback_risk", in every interleaving of the two invocations'
\* lookups and writes.
C26_NoEscalationLost ==
    (raceStart = <<>> /\ TwoUpdatesCompleted) => includes(raceTags, RISK)

\* ----------------------------------------------------------------- C27
\* the action descriptions that say a tag was added
AddedTagActions == {ActionFlag1, ActionRisk}

\* C27: the action written to the ProcessedWebhookRecord and sent in the
\* success notification says that a tag was added only when the customer's
\* tags were changed in that request: a customer is attached to the order and
\* updateCustomerTags succeeded, and customer_tags_after differs from
\* customer_tags_before.
C27_AddedTagMeansChanged ==
    Done =>
        /\ \A i \in 1..Len(procTable) :
               procTable[i].action \in AddedTagActions =>
                   procTable[i].customer_tags_after # procTable[i].customer_tags_before
        /\ \A i \in Positions("sendWebhookNotification") :
               log[i].kind \in AddedTagActions =>
                   /\ order.customer
                   /\ \E j \in Positions("updateCustomerTags") : log[j].ok

\* ----------------------------------------------------------------- C28
\* the request passes the signature, topic and domain checks and its body is
\* a JSON value that is not a dispute of type "chargeback"
NotAChargeback(r) ==
    /\ validateShopifyWebhook(r)
    /\ validateChargebackWebhook(r)
    /\ validateShopDomain(r)
    /\ JSONParse(r.body).ok
    /\ JSONParse(r.body).value.type # "chargeback"

\* C28: every such request, the JSON value null included, is answered 400
\* with an UnsupportedDisputeType ErrorRecord and never 500.
C28_NotAChargebackAnswered400 ==
    (Done /\ NotAChargeback(req)) =>
        /\ Status = 400
        /\ \A i \in Positions("insertErrorRecord") :
               log[i].code = 400 /\ log[i].kind = "UnsupportedDisputeType"
        /\ Count(log, "getOrder") = 0

\* ----------------------------------------------------------------- C29
\* C29: every connection pool opened while a chargeback request is handled
\* (the handler's DatabaseService and the one inside ChargebackService) is
\* closed by the time the response is returned, on every path.
C29_PoolsClosedAtResponse ==
    Done =>
        \A i \in Positions("createPool") :
            \E j \in Positions("close") : log[j].kind = log[i].kind /\ i < j

\* ----------------------------------------------------------------- C30
\* the calls a status request may make: none that writes to the database
\* and none to the commerce or chat service
ReadOnlyOps == {"createPool", "testConnection", "query", "respond"}

\* C30: the status endpoint reports services.database as "connected" only
\* when the connectivity check succeeded; when the database is unreachable
\* it reports the database service as in error and the overall status as
\* "degraded" instead of "running"; and it never writes to the database or
\* calls the commerce or chat service.
C30_StatusReportsDatabase ==
    stPc = "done" =>
        /\ stResponse.database = "connected" => stConn
        /\ ~stConn => /\ stResponse.database = "error"
                      /\ stResponse.status = "degraded"
        /\ \A i \in 1..Len(stLog) : stLog[i].op \in ReadOnlyOps

====
